---------------------------- MODULE Spec2Model ----------------------------
(***************************************************************************)
(* State-machine model of app/main.py: the Jackett fan-out search service. *)
(*                                                                         *)
(* One asyncio event loop runs the request handlers; a handler's code      *)
(* between two awaits is one atomic action.  The environment (the upstream *)
(* Jackett API, the file system, the wall clock) is nondeterministic.      *)
(***************************************************************************)
EXTENDS Integers, Sequences, FiniteSets, TLC

VARIABLES
    now,                \* datetime.now(), in minutes since process start
    last_cache_update,  \* the global of main.py:38
    file,               \* the contents of CACHE_FILE on disk
    req,                \* one record per HTTP request (handler coroutine)
    listCalls,          \* upstream GET /api/v2.0/indexers calls issued so far
    lastEnded,          \* the request whose registry call ended last, and when
    raw,                \* a record of a "Results" array handed to trimmed_result
    normalized          \* what trimmed_result made of it

vars == <<now, last_cache_update, file, req, listCalls, lastEnded,
          raw, normalized>>

---------------------------------------------------------------------------
(* Bounds of the model *)

MaxRequests == 2        \* HTTP requests per run
MaxResults == 2         \* records in one "Results" array
MaxTime == 45           \* the clock stops here
TickMinutes == 15       \* granularity of the clock

(* Program constants *)

CACHE_DURATION == 30    \* timedelta(minutes=30)

Requests == 1..MaxRequests
Times == 0..MaxTime

---------------------------------------------------------------------------
(* The environment's values *)

\* One entry of the upstream indexer list: {"id": ..., "configured": ...}
Indexer(id, configured) == [id |-> id, configured |-> configured]

\* Bodies of a 200 answer of GET /api/v2.0/indexers
ListBodies ==
    { <<Indexer("A", TRUE)>>,
      <<Indexer("C", FALSE), Indexer("B", TRUE)>> }

ListBodiesWide ==
    { <<>>,
      <<Indexer("B", TRUE), Indexer("C", FALSE), Indexer("A", TRUE)>>,
      <<Indexer("A", TRUE), Indexer("B", TRUE), Indexer("C", TRUE)>> }

\* An answer of the upstream list endpoint, as get_configured_indexers sees it
ListOk(body) == [kind |-> "ok", status |-> "200", body |-> body]
ListStatus(s) == [kind |-> "status", status |-> s, body |-> <<>>]
ListClientError == [kind |-> "ClientError", status |-> "", body |-> <<>>]
ListOtherError == [kind |-> "Exception", status |-> "", body |-> <<>>]

ListResponses(bodies) ==
    {ListOk(b) : b \in bodies}
        \cup {ListStatus("503"), ListClientError, ListOtherError}

\* An answer of one indexer's results endpoint, as
\* fetch_jackett_results_for_indexer sees it: a 200 with n results, another
\* status, or an exception: no connection, a timeout, a 200 whose body is no JSON
Answer(kind, status, n) == [kind |-> kind, status |-> status, n |-> n]
NoAnswer == Answer("none", "", 0)

Answers(maxn) ==
    {Answer("ok", "200", n) : n \in 0..maxn}
        \cup {Answer("status", "503", 0),
              Answer("ClientConnectorError", "", 0),
              Answer("TimeoutError", "", 0),
              Answer("JSONDecodeError", "200", 0)}

AnswerFails(a) == a.kind # "ok"

\* CACHE_FILE on disk
Absent == [st |-> "absent", ids |-> <<>>]
Corrupt == [st |-> "corrupt", ids |-> <<>>]
Json(ids) == [st |-> "json", ids |-> ids]

\* What open()/json.dump and open()/json.load can do
WriteOutcomes == {"ok", "FileNotFoundError", "PermissionError", "OSError"}
ReadOutcomes == {"ok", "PermissionError"}


---------------------------------------------------------------------------
(* Python values: None, or a str as the sequence of its characters *)

PyNone == [isNone |-> TRUE, s |-> <<>>]
PyStr(s) == [isNone |-> FALSE, s |-> s]

\* str.lower(), on the characters the model uses
LowerChar(c) ==
    CASE c = "A" -> "a"
      [] c = "B" -> "b"
      [] c = "F" -> "f"
      [] OTHER -> c

Lower(s) == [i \in 1..Len(s) |-> LowerChar(s[i])]

MagnetPrefix ==
    <<"m", "a", "g", "n", "e", "t", ":", "?", "x", "t", "=",
      "u", "r", "n", ":", "b", "t", "i", "h", ":">>

\* A variant of create_magnet_link that looks at the info-hash first
create_magnet_link_hash_first(result) ==
    LET torrenturl == result.Link
        infohash == result.InfoHash
        magneturi == result.MagnetUri
    IN  IF ~torrenturl.isNone /\ ~infohash.isNone
        THEN PyStr(MagnetPrefix \o Lower(infohash.s))
        ELSE IF ~magneturi.isNone
             THEN magneturi
             ELSE torrenturl

\* main.py:60 create_magnet_link
create_magnet_link(result) ==
    LET torrenturl == result.Link
        infohash == result.InfoHash
        magneturi == result.MagnetUri
    IN  IF ~magneturi.isNone
        THEN magneturi
        ELSE IF ~torrenturl.isNone /\ ~infohash.isNone
             THEN PyStr(MagnetPrefix \o Lower(infohash.s))
             ELSE torrenturl

\* main.py:72 trimmed_result
trimmed_result(result) ==
    [Title |-> result.Title,
     Link |-> create_magnet_link(result),
     Size |-> result.Size,
     Seeders |-> result.Seeders,
     Leechers |-> result.Leechers,
     InfoHash |-> result.InfoHash,
     IndexerId |-> result.Tracker,
     year |-> result.Year,
     Details |-> result.Details]

\* The i-th record of the "Results" array indexer `id` answers with
RawResult(id, i) ==
    [Title |-> i,
     Link |-> PyStr(<<"u">>),
     InfoHash |-> IF i % 2 = 1 THEN PyStr(<<"A", "b", "1">>) ELSE PyNone,
     MagnetUri |-> PyNone,
     Size |-> i,
     Seeders |-> i,
     Leechers |-> 0,
     Tracker |-> id,
     Year |-> PyNone,
     Details |-> PyNone]

RawResults(id, n) == [i \in 1..n |-> RawResult(id, i)]

\* What result.get("MagnetUri"), result.get("Link") and result.get("InfoHash")
\* can be: None (the key missing or null), the empty string, a string
MagnetUris == {PyNone, PyStr(<<>>), PyStr(<<"m", ":", "F", "1">>)}
TorrentUrls == {PyNone, PyStr(<<>>), PyStr(<<"u">>)}
InfoHashes ==
    {PyNone, PyStr(<<>>), PyStr(<<"A", "b", "1">>), PyStr(<<"F", "F">>),
     PyStr(<<"c">>)}

\* The records trimmed_result is handed
RawInputs ==
    {[RawResult(id, 1) EXCEPT !.MagnetUri = m, !.Link = u, !.InfoHash = h] :
        id \in {"A", "B"}, m \in MagnetUris, u \in TorrentUrls,
        h \in InfoHashes}

\* normalized before trimmed_result has returned
NotNormalized == [done |-> FALSE]
IsNormalized == "Link" \in DOMAIN normalized

\* {"error": f"Error fetching from indexer {indexer_id}: {response.status}"}
\* {"error": f"Exception fetching from indexer {indexer_id}: {str(e)}"}
ErrorRecord(prefix, indexer_id, detail) ==
    [error |-> <<prefix, indexer_id, detail>>]

IsErrorRecord(item) == "error" \in DOMAIN item

\* What a coroutine hands to its awaiter: a value, or a raised exception
Returned(batch) == [raised |-> FALSE, batch |-> batch]
Raised == [raised |-> TRUE, batch |-> <<>>]

\* A variant of the executor whose except clause names aiohttp.ClientError only
fetch_client_errors_only(indexer_id, a) ==
    IF a.kind = "ok"
    THEN Returned([i \in 1..a.n |-> trimmed_result(RawResults(indexer_id, a.n)[i])])
    ELSE IF a.kind = "status"
         THEN Returned(<<ErrorRecord("Error fetching from indexer", indexer_id, a.status)>>)
         ELSE IF a.kind = "ClientConnectorError"
              THEN Returned(<<ErrorRecord("Exception fetching from indexer", indexer_id, a.kind)>>)
              ELSE Raised

\* A variant of the executor that answers a failure with an empty batch
fetch_dropping_failures(indexer_id, a) ==
    IF a.kind = "ok"
    THEN Returned([i \in 1..a.n |-> trimmed_result(RawResults(indexer_id, a.n)[i])])
    ELSE Returned(<<>>)

\* main.py:43 fetch_jackett_results_for_indexer (process_indexer, main.py:85,
\* returns its value unchanged)
fetch_jackett_results_for_indexer(indexer_id, a) ==
    IF a.kind = "ok"
    THEN LET results == RawResults(indexer_id, a.n)
         IN  Returned([i \in 1..Len(results) |-> trimmed_result(results[i])])
    ELSE IF a.kind = "status"
         THEN Returned(<<ErrorRecord("Error fetching from indexer", indexer_id, a.status)>>)
         ELSE Returned(<<ErrorRecord("Exception fetching from indexer", indexer_id, a.kind)>>)

\* What get_configured_indexers hands to its caller
ListResult(ids) == [type |-> "list", ids |-> ids, status |-> ""]
HTTPException(status) == [type |-> "HTTPException", ids |-> <<>>, status |-> status]
OtherException == [type |-> "Exception", ids |-> <<>>, status |-> ""]
NoResult == [type |-> "none", ids |-> <<>>, status |-> ""]

\* [indexer["id"] for indexer in indexers_data if indexer.get("configured", False)]
ConfiguredIds(body) ==
    LET kept == SelectSeq(body, LAMBDA x : x.configured)
    IN  [i \in 1..Len(kept) |-> kept[i].id]

\* A variant of get_configured_indexers that swallows a failed answer
get_configured_indexers_lenient(resp) ==
    IF resp.kind = "ok" THEN ListResult(ConfiguredIds(resp.body)) ELSE ListResult(<<>>)

\* main.py:114 get_configured_indexers, from the upstream's answer on
get_configured_indexers(resp) ==
    IF resp.kind = "ok"
    THEN ListResult(ConfiguredIds(resp.body))
    ELSE IF resp.kind = "status"
         THEN HTTPException(resp.status)
         ELSE IF resp.kind = "ClientError"
              THEN HTTPException("500")
              ELSE OtherException

\* A variant of write_cache that opens CACHE_FILE for appending
write_cache_appending(old, ids, outcome) ==
    CASE outcome = "ok" -> IF old.st = "absent" THEN Json(ids) ELSE Corrupt
      [] outcome = "FileNotFoundError" -> Absent
      [] outcome = "PermissionError" -> old
      [] OTHER -> Corrupt

\* with open(CACHE_FILE, "w") as f: json.dump(configured_indexers, f)
\* (main.py:105-109 and 150-154): what is on disk afterwards
write_cache(old, ids, outcome) ==
    CASE outcome = "ok" -> Json(ids)
      [] outcome = "FileNotFoundError" -> Absent     \* open() found no directory
      [] outcome = "PermissionError" -> old          \* open() refused
      [] OTHER -> Corrupt                            \* truncated, then the write failed

\* except (FileNotFoundError, json.JSONDecodeError): the others propagate
WriteRaises(outcome) == outcome \in {"PermissionError", "OSError"}

---------------------------------------------------------------------------
(* Requests *)

\* One task of event_generator's `tasks` list (asyncio.create_task)
Pending == [done |-> FALSE, answer |-> NoAnswer, res |-> Returned(<<>>)]
Done(answer, res) == [done |-> TRUE, answer |-> answer, res |-> res]

\* A request that has not arrived yet.  The fields after `result` exist for a
\* /search request only; first, seq, prev, late, read, up and wrote record
\* what happened and are read by no action.
IdleReq ==
    [kind |-> "none",
     pc |-> "idle",
     started |-> FALSE,     \* http.response.start (200) was sent
     calls |-> 0,           \* upstream list calls this request issued
     first |-> FALSE,       \* its call of get_configured_indexers_from_file
                            \* is the first of the process
     seq |-> FALSE,         \* no other registry call was under way when its began
     prev |-> 0,            \* the request whose registry call had ended last by then
     late |-> FALSE,        \* and that was CACHE_DURATION or more before
     read |-> "none",       \* what reading CACHE_FILE within the TTL did
     up |-> "none",         \* the upstream's answer to its list call
     wrote |-> "none",      \* what writing CACHE_FILE did
     result |-> NoResult,   \* what the registry call handed back
     tasks |-> <<>>,
     order |-> <<>>,        \* as_completed's queue: task indices as they finish
     taken |-> 0,           \* how many of them the for loop has awaited
     cur |-> <<>>,          \* the rest of `results` in the inner for loop
     out |-> <<>>]          \* the events yielded so far

TypeOK ==
    /\ now \in Times
    /\ last_cache_update \in Times
    /\ file.st \in {"absent", "corrupt", "json"}
    /\ listCalls \in Nat
    /\ lastEnded.r \in 0..MaxRequests /\ lastEnded.at \in Times
    /\ \A r \in Requests :
        /\ req[r].kind \in {"none", "search", "indexers"}
        /\ req[r].pc \in {"idle", "started", "awaitList", "streaming",
                          "closed", "failed", "done"}
        /\ req[r].taken <= Len(req[r].order)
        /\ Len(req[r].order) <= Len(req[r].tasks)

\* Requests are numbered as they arrive
CanArrive(r) ==
    /\ req[r].pc = "idle"
    /\ IF r = 1 THEN TRUE ELSE req[r - 1].pc # "idle"

RegistryEnded(q) == q.result.type # "none"
RegistryBegun(q) == q.pc \notin {"idle", "started"}

\* The registry call of request r ends now
Ended(r) == [r |-> r, at |-> now]

\* tasks = [asyncio.create_task(process_indexer(...)) for indexer_id in ...]
Launch(q, ids) ==
    [q EXCEPT !.pc = "streaming",
              !.tasks = [i \in 1..Len(ids) |-> Pending]]

\* if os.path.exists(CACHE_FILE) and datetime.now() - last_cache_update < CACHE_DURATION
CacheLooksFresh == file.st # "absent" /\ now - last_cache_update < CACHE_DURATION

Init ==
    /\ now = 0
    /\ last_cache_update = 0        \* main.py:38, at import
    /\ file \in {Absent, Corrupt, Json(<<"C">>)}   \* what an earlier run left
    /\ req = [r \in Requests |-> IdleReq]
    /\ listCalls = 0
    /\ lastEnded = [r |-> 0, at |-> 0]
    /\ raw = RawResult("A", 1)
    /\ normalized = NotNormalized

\* The wall clock advances
Tick ==
    /\ now + TickMinutes <= MaxTime
    /\ now' = now + TickMinutes
    /\ UNCHANGED <<last_cache_update, file, req, listCalls, lastEnded, raw, normalized>>

\* GET /search: search() returns the StreamingResponse, whose headers go out
\* before the body iterator (event_generator) is first advanced
StartSearch(r) ==
    /\ CanArrive(r)
    /\ req' = [req EXCEPT ![r] = [@ EXCEPT !.kind = "search",
                                          !.pc = "started",
                                          !.started = TRUE]]
    /\ UNCHANGED <<now, last_cache_update, file, listCalls, lastEnded, raw, normalized>>

\* event_generator up to its first suspension: get_configured_indexers_from_file
\* up to the upstream call, or through the cache read to the launch of the tasks
GenStart(r) ==
    /\ req[r].pc = "started"
    /\ LET q == [req[r] EXCEPT
                    !.first = \A x \in Requests :
                                req[x].kind = "search" => ~RegistryBegun(req[x]),
                    !.seq = \A x \in Requests :
                                RegistryBegun(req[x]) => RegistryEnded(req[x]),
                    !.prev = lastEnded.r,
                    !.late = now - lastEnded.at >= CACHE_DURATION]
       IN  IF CacheLooksFresh
           THEN \E ro \in ReadOutcomes :
                IF ro = "PermissionError"
                THEN /\ req' = [req EXCEPT ![r] =
                                  [q EXCEPT !.pc = "failed", !.read = ro,
                                            !.result = OtherException]]
                     /\ lastEnded' = Ended(r)
                     /\ UNCHANGED listCalls
                ELSE IF file.st = "json"
                THEN /\ req' = [req EXCEPT ![r] =
                                  Launch([q EXCEPT !.read = ro,
                                                   !.result = ListResult(file.ids)],
                                         file.ids)]
                     /\ lastEnded' = Ended(r)
                     /\ UNCHANGED listCalls
                ELSE \* json.JSONDecodeError, caught: on to the refresh
                     /\ req' = [req EXCEPT ![r] =
                                  [q EXCEPT !.pc = "awaitList", !.calls = 1,
                                            !.read = "JSONDecodeError"]]
                     /\ listCalls' = listCalls + 1
                     /\ UNCHANGED lastEnded
           ELSE /\ req' = [req EXCEPT ![r] =
                             [q EXCEPT !.pc = "awaitList", !.calls = 1,
                                       !.read = IF now - last_cache_update < CACHE_DURATION
                                                THEN "missing" ELSE "none"]]
                /\ listCalls' = listCalls + 1
                /\ UNCHANGED lastEnded
    /\ UNCHANGED <<now, last_cache_update, file, raw, normalized>>

\* A variant that restarts the TTL clock whatever the upstream answered
RefreshResponseStamping(r, bodies) ==
    /\ req[r].pc = "awaitList"
    /\ req[r].kind = "search"
    /\ \E resp \in ListResponses(bodies), wo \in WriteOutcomes :
        LET res == get_configured_indexers(resp)
            q == [req[r] EXCEPT !.up = resp.kind]
        IN  IF res.type # "list"
            THEN /\ req' = [req EXCEPT ![r] =
                              [q EXCEPT !.pc = "failed", !.result = res]]
                 /\ last_cache_update' = now
                 /\ UNCHANGED file
            ELSE IF WriteRaises(wo)
            THEN /\ file' = write_cache(file, res.ids, wo)
                 /\ req' = [req EXCEPT ![r] =
                              [q EXCEPT !.pc = "failed", !.wrote = wo,
                                        !.result = OtherException]]
                 /\ UNCHANGED last_cache_update
            ELSE /\ file' = write_cache(file, res.ids, wo)
                 /\ last_cache_update' = now
                 /\ req' = [req EXCEPT ![r] =
                              Launch([q EXCEPT !.wrote = wo, !.result = res],
                                     res.ids)]
    /\ lastEnded' = Ended(r)
    /\ UNCHANGED <<now, listCalls, raw, normalized>>

\* get_configured_indexers_from_file from the upstream's answer on
\* (main.py:104-112), then event_generator to the launch of the tasks
RefreshResponse(r, bodies) ==
    /\ req[r].pc = "awaitList"
    /\ req[r].kind = "search"
    /\ \E resp \in ListResponses(bodies), wo \in WriteOutcomes :
        LET res == get_configured_indexers(resp)
            q == [req[r] EXCEPT !.up = resp.kind]
        IN  IF res.type # "list"
            THEN /\ req' = [req EXCEPT ![r] =
                              [q EXCEPT !.pc = "failed", !.result = res]]
                 /\ UNCHANGED <<file, last_cache_update>>
            ELSE IF WriteRaises(wo)
            THEN /\ file' = write_cache(file, res.ids, wo)
                 /\ req' = [req EXCEPT ![r] =
                              [q EXCEPT !.pc = "failed", !.wrote = wo,
                                        !.result = OtherException]]
                 /\ UNCHANGED last_cache_update
            ELSE /\ file' = write_cache(file, res.ids, wo)
                 /\ last_cache_update' = now
                 /\ req' = [req EXCEPT ![r] =
                              Launch([q EXCEPT !.wrote = wo, !.result = res],
                                     res.ids)]
    /\ lastEnded' = Ended(r)
    /\ UNCHANGED <<now, listCalls, raw, normalized>>

\* A variant of get_indexers that goes through the TTL check
StartIndexersCached(r) ==
    /\ CanArrive(r)
    /\ IF CacheLooksFresh /\ file.st = "json"
       THEN /\ req' = [req EXCEPT ![r] =
                         [@ EXCEPT !.kind = "indexers", !.pc = "done",
                                   !.started = TRUE,
                                   !.result = ListResult(file.ids)]]
            /\ lastEnded' = Ended(r)
            /\ UNCHANGED listCalls
       ELSE /\ req' = [req EXCEPT ![r] =
                         [@ EXCEPT !.kind = "indexers", !.pc = "awaitList",
                                   !.calls = 1]]
            /\ listCalls' = listCalls + 1
            /\ UNCHANGED lastEnded
    /\ UNCHANGED <<now, last_cache_update, file, raw, normalized>>

\* GET /indexers: get_indexers up to the upstream call of get_configured_indexers
StartIndexers(r) ==
    /\ CanArrive(r)
    /\ req' = [req EXCEPT ![r] =
                 [@ EXCEPT !.kind = "indexers", !.pc = "awaitList",
                           !.calls = 1]]
    /\ listCalls' = listCalls + 1
    /\ UNCHANGED <<now, last_cache_update, file, lastEnded, raw, normalized>>

\* get_indexers from the upstream's answer on (main.py:149-156)
IndexersResponse(r, bodies) ==
    /\ req[r].pc = "awaitList"
    /\ req[r].kind = "indexers"
    /\ \E resp \in ListResponses(bodies), wo \in WriteOutcomes :
        LET res == get_configured_indexers(resp)
            q == [req[r] EXCEPT !.up = resp.kind]
        IN  IF res.type # "list"
            THEN /\ req' = [req EXCEPT ![r] =
                              [q EXCEPT !.pc = "failed", !.result = res]]
                 /\ UNCHANGED file
            ELSE IF WriteRaises(wo)
            THEN /\ file' = write_cache(file, res.ids, wo)
                 /\ req' = [req EXCEPT ![r] =
                              [q EXCEPT !.pc = "failed", !.wrote = wo,
                                        !.result = OtherException]]
            ELSE /\ file' = write_cache(file, res.ids, wo)
                 /\ req' = [req EXCEPT ![r] =
                              [q EXCEPT !.pc = "done", !.started = TRUE,
                                        !.wrote = wo, !.result = res]]
    /\ lastEnded' = Ended(r)
    /\ UNCHANGED <<now, last_cache_update, listCalls, raw, normalized>>

---------------------------------------------------------------------------
(* The fan-out of event_generator *)

\* One task finishes: process_indexer returns what the executor made of the
\* upstream's answer, and as_completed's callback queues the task
TaskComplete(r, answers) ==
    /\ req[r].pc = "streaming"
    /\ \E i \in 1..Len(req[r].tasks), a \in answers :
        /\ ~req[r].tasks[i].done
        /\ req' = [req EXCEPT ![r] =
                     [@ EXCEPT !.tasks[i] =
                                   Done(a, fetch_jackett_results_for_indexer(
                                               req[r].result.ids[i], a)),
                               !.order = Append(@, i)]]
    /\ UNCHANGED <<now, last_cache_update, file, listCalls, lastEnded, raw, normalized>>

\* A variant that awaits the tasks in the order of the `tasks` list
NextInLaunchOrder(q) ==
    IF q.taken < Len(q.tasks) /\ q.tasks[q.taken + 1].done
    THEN q.taken + 1
    ELSE 0

\* A variant that hands out the first finished task again and again
NextAlwaysFirst(q) ==
    IF q.taken < Len(q.order) THEN q.order[1] ELSE 0

\* A variant that gathers every task before it hands out the first
NextAfterGather(q) ==
    IF Len(q.order) = Len(q.tasks) /\ q.taken < Len(q.order)
    THEN q.order[q.taken + 1]
    ELSE 0

\* for completed_task in asyncio.as_completed(tasks): the task the next
\* `await completed_task` returns, 0 while it has to wait
NextCompleted(q) ==
    IF q.taken < Len(q.order) THEN q.order[q.taken + 1] ELSE 0

\* A variant that ends the loop as soon as no finished task is waiting
NothingWaiting(q) == q.taken = Len(q.order)

\* A variant that ends the loop when the last of the tasks has been awaited
LastTaskDrained(q) == q.taken > 0 /\ q.taken = Len(q.tasks)

\* The for loop over as_completed(tasks) is exhausted
AllDrained(q) == q.taken = Len(q.tasks)

\* results = await completed_task
Drain(r) ==
    /\ req[r].pc = "streaming"
    /\ req[r].cur = <<>>
    /\ LET i == NextCompleted(req[r])
       IN  /\ i # 0
           /\ req' = [req EXCEPT ![r] =
                        IF req[r].tasks[i].res.raised
                        THEN [@ EXCEPT !.pc = "failed", !.taken = @ + 1]
                        ELSE [@ EXCEPT !.cur = req[r].tasks[i].res.batch,
                                       !.taken = @ + 1]]
    /\ UNCHANGED <<now, last_cache_update, file, listCalls, lastEnded, raw, normalized>>

\* yield f"data: {json.dumps(item)}\n\n", read by the client
Emit(r) ==
    /\ req[r].pc = "streaming"
    /\ req[r].cur # <<>>
    /\ req' = [req EXCEPT ![r] =
                 [@ EXCEPT !.out = Append(@, Head(req[r].cur)),
                           !.cur = Tail(@)]]
    /\ UNCHANGED <<now, last_cache_update, file, listCalls, lastEnded, raw, normalized>>

\* The generator returns: the response body ends
Close(r) ==
    /\ req[r].pc = "streaming"
    /\ req[r].cur = <<>>
    /\ AllDrained(req[r])
    /\ req' = [req EXCEPT ![r] = [@ EXCEPT !.pc = "closed"]]
    /\ UNCHANGED <<now, last_cache_update, file, listCalls, lastEnded, raw, normalized>>

---------------------------------------------------------------------------
(* Specifications *)

\* The registry: requests of both kinds, concurrent, and the clock.  A /search
\* request is followed to the launch of its tasks; what it does from there on
\* reads and writes nothing the registry uses, and SearchSpec follows it.
Next ==
    \/ Tick
    \/ \E r \in Requests : StartSearch(r)
    \/ \E r \in Requests : GenStart(r)
    \/ \E r \in Requests : RefreshResponse(r, ListBodies)
    \/ \E r \in Requests : StartIndexers(r)
    \/ \E r \in Requests : IndexersResponse(r, ListBodies)

Spec == Init /\ [][Next]_vars

\* One /search request from its arrival to the end of its stream, over wider
\* registries
SearchNext ==
    \/ StartSearch(1)
    \/ GenStart(1)
    \/ RefreshResponse(1, ListBodiesWide)
    \/ TaskComplete(1, Answers(MaxResults))
    \/ Drain(1)
    \/ Emit(1)
    \/ Close(1)

SearchSpec == Init /\ [][SearchNext]_vars

\* The same, with every launched task finishing and the client reading on
FairSearchSpec ==
    /\ SearchSpec
    /\ WF_vars(TaskComplete(1, Answers(MaxResults)))
    /\ WF_vars(Drain(1))
    /\ WF_vars(Emit(1))
    /\ WF_vars(Close(1))

\* The same search with the event loop running the generator and the client
\* reading on, while an indexer may never answer
ReadingSearchSpec ==
    /\ SearchSpec
    /\ WF_vars(Drain(1))
    /\ WF_vars(Emit(1))
    /\ WF_vars(Close(1))

---------------------------------------------------------------------------
(* What the claims speak of *)

\* The backend an event of the stream is attributable to
BackendOf(item) == IF IsErrorRecord(item) THEN item.error[2] ELSE item.IndexerId

\* The task of backend b in a search, and its place in the order of completion
TaskOf(q, b) == CHOOSE i \in 1..Len(q.tasks) : q.result.ids[i] = b
PlaceOf(q, i) == CHOOSE k \in 1..Len(q.order) : q.order[k] = i

\* The events a backend owes the stream, by the upstream's answer alone
Owed(a) == IF AnswerFails(a) THEN 1 ELSE a.n

RECURSIVE OwedUpTo(_, _)
OwedUpTo(q, n) == IF n = 0 THEN 0 ELSE Owed(q.tasks[n].answer) + OwedUpTo(q, n - 1)

EventsOf(q, b) == SelectSeq(q.out, LAMBDA x : BackendOf(x) = b)

Searches == {r \in Requests : req[r].kind = "search"}

---------------------------------------------------------------------------
(* Claims about the fan-out, under SearchSpec and FairSearchSpec *)

\* C1: failure isolation.  A search that obtained its registry is never aborted
\* by a backend; its finished stream holds, for every backend whose call
\* succeeded, exactly that backend's normalized results, for every backend
\* whose call failed exactly one ErrorRecord, and nothing else: its length is
\* the sum of the succeeding backends' result counts plus the number of
\* failing backends.
C1_FailureIsolation ==
    \A r \in Searches :
        LET q == req[r]
            ids == q.result.ids
        IN  /\ q.pc = "failed" => q.result.type # "list"
            /\ q.pc = "closed" =>
                /\ Len(q.out) = OwedUpTo(q, Len(q.tasks))
                /\ \A k \in 1..Len(q.out) :
                       \E i \in 1..Len(ids) : BackendOf(q.out[k]) = ids[i]
                /\ \A i \in 1..Len(ids) :
                       LET a == q.tasks[i].answer
                           mine == EventsOf(q, ids[i])
                       IN  IF AnswerFails(a)
                           THEN Len(mine) = 1 /\ IsErrorRecord(mine[1])
                           ELSE mine = [k \in 1..a.n |->
                                           trimmed_result(RawResult(ids[i], k))]

\* C1's case: registry <<A, B, C>>, B failing, A and C succeeding with results
C1_Witness ==
    \E r \in Searches :
        LET q == req[r]
        IN  /\ q.pc = "closed"
            /\ q.result.ids = <<"A", "B", "C">>
            /\ q.tasks[2].answer.kind = "status"
            /\ q.tasks[1].answer = Answer("ok", "200", 2)
            /\ q.tasks[3].answer = Answer("ok", "200", 1)
            /\ Len(q.out) = 4

\* C2: emission order is completion order.  Of two events of the stream that
\* come from different backends, the earlier one comes from the backend whose
\* invocation completed first, whatever the launch order and the order of the
\* identifiers; two events of one backend come in the order of the upstream's
\* result list.
C2_CompletionOrder ==
    \A r \in Searches :
        LET q == req[r]
        IN  \A k1, k2 \in 1..Len(q.out) :
                k1 < k2 =>
                    LET i1 == TaskOf(q, BackendOf(q.out[k1]))
                        i2 == TaskOf(q, BackendOf(q.out[k2]))
                    IN  IF i1 = i2
                        THEN /\ ~IsErrorRecord(q.out[k1])
                             /\ ~IsErrorRecord(q.out[k2])
                             /\ q.out[k1].Title < q.out[k2].Title
                        ELSE PlaceOf(q, i1) < PlaceOf(q, i2)

\* C2's case: the task launched last, of the greatest identifier, completes
\* first with two results, and the task launched first completes last
C2_Witness ==
    \E r \in Searches :
        LET q == req[r]
        IN  /\ q.pc = "closed"
            /\ q.result.ids = <<"A", "B", "C">>
            /\ q.order = <<3, 2, 1>>
            /\ q.tasks[3].answer = Answer("ok", "200", 2)
            /\ q.tasks[1].answer = Answer("ok", "200", 2)
            /\ BackendOf(q.out[1]) = "C"
            /\ BackendOf(q.out[Len(q.out)]) = "A"

\* The stream of a search has ended with every task finished and awaited and
\* every element of every batch emitted, and holds nothing but batch elements
EndedComplete(q) ==
    /\ \A i \in 1..Len(q.tasks) : q.tasks[i].done
    /\ q.taken = Len(q.tasks)
    /\ q.cur = <<>>
    /\ \A i \in 1..Len(q.tasks) :
           \A k \in 1..Len(q.tasks[i].res.batch) :
               \E j \in 1..Len(q.out) : q.out[j] = q.tasks[i].res.batch[k]
    /\ \A j \in 1..Len(q.out) :
           \E i \in 1..Len(q.tasks) :
               \E k \in 1..Len(q.tasks[i].res.batch) :
                   q.out[j] = q.tasks[i].res.batch[k]

\* C3: termination.  With every launched invocation completing and the client
\* reading on, the stream of a search that launched its tasks ends; it ends
\* only after every invocation has completed and every element of every batch
\* has been emitted, and no end sentinel is among its elements.
C3_Termination ==
    /\ [](\A r \in Requests : req[r].pc = "closed" => EndedComplete(req[r]))
    /\ \A r \in Requests : (req[r].pc = "streaming") ~> (req[r].pc = "closed")

\* C3's case: a stream over three backends has ended
C3_Witness ==
    \E r \in Searches :
        /\ req[r].pc = "closed"
        /\ Len(req[r].tasks) = 3
        /\ Len(req[r].out) >= 3

\* C4: the executor never raises.  Whatever the upstream's answer, the task
\* hands back a batch; on a status other than 200 the batch is one ErrorRecord
\* naming the backend and the status, on an exception it is one ErrorRecord
\* naming the backend and the failure, and it holds no NormalizedResult.
C4_ExecutorNeverRaises ==
    \A r \in Searches :
        LET q == req[r]
        IN  \A i \in 1..Len(q.tasks) :
                LET a == q.tasks[i].answer
                    id == q.result.ids[i]
                IN  q.tasks[i].done =>
                        /\ ~q.tasks[i].res.raised
                        /\ a.kind = "status" =>
                               q.tasks[i].res.batch =
                                   <<[error |-> <<"Error fetching from indexer",
                                                  id, a.status>>]>>
                        /\ a.kind \notin {"ok", "status"} =>
                               q.tasks[i].res.batch =
                                   <<[error |-> <<"Exception fetching from indexer",
                                                  id, a.kind>>]>>

\* C4's case: one search saw a 503, a timeout and a body that is no JSON
C4_Witness ==
    \E r \in Searches :
        LET q == req[r]
        IN  /\ Len(q.tasks) = 3
            /\ \A i \in 1..3 : q.tasks[i].done
            /\ {q.tasks[i].answer.kind : i \in 1..3} =
                   {"status", "TimeoutError", "JSONDecodeError"}

\* trimmed_result alone, on every record of RawInputs
NormalizerInit ==
    /\ now = 0
    /\ last_cache_update = 0
    /\ file = Absent
    /\ req = [r \in Requests |-> IdleReq]
    /\ listCalls = 0
    /\ lastEnded = [r |-> 0, at |-> 0]
    /\ raw \in RawInputs
    /\ normalized = NotNormalized

\* [trimmed_result(result) for result in results] (main.py:53), one record
Normalize ==
    /\ ~IsNormalized
    /\ normalized' = trimmed_result(raw)
    /\ UNCHANGED <<now, last_cache_update, file, req, listCalls, lastEnded, raw>>

NormalizerNext == Normalize

NormalizerSpec == NormalizerInit /\ [][NormalizerNext]_vars

---------------------------------------------------------------------------
(* Claims about the registry, under Spec *)

\* Request r2 called get_configured_indexers_from_file next after the registry
\* call of request r1 had ended, with no other registry call under way
CalledNextAfter(r2, r1) ==
    /\ req[r2].kind = "search"
    /\ RegistryBegun(req[r2])
    /\ req[r2].seq
    /\ req[r2].prev = r1

\* C5: TTL behaviour of get_configured_indexers_from_file.  Two calls, the
\* second within CACHE_DURATION of the first, make exactly one upstream list
\* call between them; two calls, the second CACHE_DURATION or more after the
\* first, make exactly two.  (Stated of the first two calls of a process, one
\* after the other, both handing back a list, with no other request about.)
C5_TTLIdempotence ==
    \A r1, r2 \in Requests :
        ( /\ r1 # r2
          /\ req[r1].kind = "search" /\ req[r1].first
          /\ CalledNextAfter(r2, r1)
          /\ req[r1].result.type = "list" /\ req[r2].result.type = "list"
          /\ \A x \in Requests \ {r1, r2} : req[x].kind = "none" )
        => req[r1].calls + req[r2].calls = IF req[r2].late THEN 2 ELSE 1

\* C6: after a process start the registry is stale on first use.  The first
\* call of get_configured_indexers_from_file that hands back a list has
\* contacted the upstream list endpoint, whatever file an earlier run left.
C6_StaleOnFirstUse ==
    \A r \in Searches :
        (req[r].first /\ req[r].result.type = "list") => req[r].calls = 1

\* C7: get_indexers issues one upstream list call on every invocation, in
\* every cache state, also when called twice in immediate succession.
C7_IndexersAlwaysRefreshes ==
    /\ \A r \in Requests : req[r].kind = "indexers" => req[r].calls = 1
    /\ listCalls >= Cardinality({r \in Requests : req[r].kind = "indexers"})

\* C7's case: two /indexers requests answered at the same instant, the second
\* arriving while the cache file of the first is there and the TTL is running
C7_Witness ==
    /\ now = 0
    /\ CacheLooksFresh /\ file.st = "json"
    /\ listCalls = 2
    /\ \A r \in {1, 2} : req[r].kind = "indexers" /\ req[r].pc = "done"
    /\ lastEnded.r = 2

\* C8: an upstream failure during a registry refresh is a hard failure.  A
\* request whose list call was answered by a status other than 200 or by an
\* exception ends with an error: its registry call hands back no list (the
\* persisted snapshot neither), no task is launched and no event emitted.
C8_RefreshFailureIsHard ==
    \A r \in Requests :
        req[r].up \notin {"none", "ok"} =>
            /\ req[r].pc = "failed"
            /\ req[r].result.type \in {"HTTPException", "Exception"}
            /\ req[r].result.ids = <<>>
            /\ req[r].tasks = <<>>
            /\ req[r].out = <<>>

\* C8's case: both operations failed on the upstream while a readable
\* snapshot was on disk
C8_Witness ==
    /\ file.st = "json"
    /\ \E r1, r2 \in Requests :
        /\ req[r1].kind = "search" /\ req[r1].up = "status"
        /\ req[r1].result = HTTPException("503")
        /\ req[r2].kind = "indexers" /\ req[r2].up = "ClientError"
        /\ req[r2].result = HTTPException("500")

\* C9: a /search whose registry cannot be established answers with an error
\* and no stream: when the upstream list call of a search fails, no success
\* response start has been sent to the client.
C9_NoStreamOnRegistryFailure ==
    \A r \in Searches :
        (req[r].pc = "failed" /\ req[r].up \notin {"none", "ok"})
            => ~req[r].started

\* C10: a failure to write the snapshot during a refresh is not fatal.  The
\* refresh still hands the fetched list to its caller, and the next call of
\* get_configured_indexers_from_file, within CACHE_DURATION of it, hands back
\* the same list without an upstream call.
C10_WriteFailureNotFatal ==
    \A r \in Requests :
        (req[r].up = "ok" /\ req[r].wrote \notin {"none", "ok"}) =>
            /\ req[r].result.type = "list"
            /\ \A r2 \in Requests :
                   ( /\ CalledNextAfter(r2, r)
                     /\ ~req[r2].late
                     /\ RegistryEnded(req[r2]) )
                   => /\ req[r2].calls = 0
                      /\ req[r2].result = req[r].result

\* C11: a read failure on the snapshot within the TTL is treated like STALE.
\* A call of get_configured_indexers_from_file that finds the file missing,
\* unreadable or corrupt while the TTL is running does not fail on that: it
\* calls the upstream, and when the upstream answers and the write succeeds
\* it persists and hands back the refreshed list.
C11_ReadFailureIsStale ==
    \A r \in Searches :
        req[r].read \in {"missing", "JSONDecodeError", "PermissionError"} =>
            /\ req[r].calls = 1
            /\ RegistryEnded(req[r]) => req[r].up # "none"
            /\ (req[r].up = "ok" /\ req[r].wrote = "ok") =>
                   /\ req[r].result.type = "list"
                   /\ lastEnded.r = r => file = Json(req[r].result.ids)

\* Request r fetched a list from the upstream and wrote it to CACHE_FILE
Refreshed(r) == req[r].up = "ok" /\ req[r].wrote = "ok"

\* The requests whose refresh fetched a list
Fetchers == {r \in Requests : req[r].up = "ok"}

\* C12: concurrent refreshes leave one whole list behind, the last writer's.
\* Whatever the order in which /search and /indexers refreshes begin and get
\* their answers: the file holds the list of the refresh whose registry call
\* ended last; once every refresh has ended and those that fetched a list
\* wrote it, the file holds exactly the list one of them fetched; a call that
\* reads the file gets a list that was there at the start or that one refresh
\* wrote whole; and the file becomes unparseable only in a step whose own
\* write fails, never by the interleaving of two writes.
C12_LastWriterWins ==
    /\ [](\A r \in Requests :
            (Refreshed(r) /\ lastEnded.r = r) => file = Json(req[r].result.ids))
    /\ []((/\ \A r \in Requests : req[r].calls = 1 => RegistryEnded(req[r])
           /\ Fetchers # {}
           /\ \A r \in Fetchers : req[r].wrote = "ok")
          => \E r \in Fetchers : file = Json(req[r].result.ids))
    /\ [](\A r \in Searches :
            req[r].read = "ok" =>
                \/ req[r].result.ids = <<"C">>
                \/ \E w \in Requests \ {r} :
                       Refreshed(w) /\ req[w].result.ids = req[r].result.ids)
    /\ [][(file'.st = "corrupt" /\ file.st # "corrupt") =>
             \E r \in Requests :
                 req[r].wrote = "none" /\ req'[r].wrote = "OSError"]_vars

\* Two refreshes under way at once fetch different lists and both write; the
\* one that began first writes last, and its list is the one on disk
C12_Witness ==
    /\ Refreshed(1) /\ Refreshed(2)
    /\ req[2].kind = "search" /\ ~req[2].seq
    /\ req[1].result.ids # req[2].result.ids
    /\ lastEnded.r = 1
    /\ file = Json(req[1].result.ids)

---------------------------------------------------------------------------
(* Claims about the normalizer, under NormalizerSpec *)

\* A field that holds a string of at least one character
NonEmpty(x) == ~x.isNone /\ x.s # <<>>

\* "magnet:?xt=urn:btih:" followed by the lower-cased info-hash
SynthesizedMagnet(infohash) == PyStr(MagnetPrefix \o Lower(infohash.s))

\* C13: an explicit magnet URI is used verbatim.  When the record's MagnetUri
\* is a non-empty string, the Link of the normalized record is that string,
\* character for character, whatever Link and InfoHash hold.
C13_MagnetVerbatim ==
    (IsNormalized /\ NonEmpty(raw.MagnetUri)) =>
        normalized.Link = raw.MagnetUri

\* A record with a magnet URI, a torrent URL and an info-hash is normalized:
\* the magnet URI, upper case included, is the Link
C13_Witness ==
    /\ IsNormalized
    /\ NonEmpty(raw.MagnetUri) /\ NonEmpty(raw.Link) /\ NonEmpty(raw.InfoHash)
    /\ normalized.Link = PyStr(<<"m", ":", "F", "1">>)

\* C14: a magnet is synthesized from the info-hash.  When MagnetUri is absent
\* or the empty string and both Link and InfoHash are non-empty strings, the
\* Link of the normalized record is "magnet:?xt=urn:btih:" followed by the
\* lower-cased info-hash.
C14_MagnetFromInfoHash ==
    (/\ IsNormalized
     /\ ~NonEmpty(raw.MagnetUri)
     /\ NonEmpty(raw.Link)
     /\ NonEmpty(raw.InfoHash))
    => normalized.Link = SynthesizedMagnet(raw.InfoHash)

\* C15: otherwise the torrent URL is passed through.  When MagnetUri and
\* InfoHash are both absent or the empty string, the Link of the normalized
\* record is the record's Link field, absent or empty as it may be.
C15_TorrentUrlFallback ==
    (/\ IsNormalized
     /\ ~NonEmpty(raw.MagnetUri)
     /\ ~NonEmpty(raw.InfoHash))
    => normalized.Link = raw.Link

---------------------------------------------------------------------------
(* More claims about the fan-out, under SearchSpec *)

\* C16: an empty registry gives an empty stream.  A search whose registry
\* call hands back the empty list launches no task and emits no event; it
\* does not fail; and while its stream is open the generator has one step
\* only, its return, which ends the stream with zero events.
C16_EmptyRegistry ==
    \A r \in Searches :
        (req[r].result.type = "list" /\ req[r].result.ids = <<>>) =>
            /\ req[r].tasks = <<>>
            /\ req[r].out = <<>>
            /\ req[r].pc \in {"streaming", "closed"}
            /\ req[r].pc = "streaming" =>
                   /\ ENABLED Close(r)
                   /\ ~ENABLED Drain(r)
                   /\ ~ENABLED Emit(r)
                   /\ ~ENABLED TaskComplete(r, Answers(MaxResults))

\* The upstream lists no configured indexer; the stream has ended, empty
C16_Witness ==
    /\ req[1].kind = "search"
    /\ req[1].up = "ok"
    /\ req[1].result = ListResult(<<>>)
    /\ req[1].pc = "closed"
    /\ req[1].out = <<>>

---------------------------------------------------------------------------
(* More claims about the registry, under Spec *)

\* C17: /indexers refreshes as the stale path does, the TTL clock included.
\* After a GET /indexers that fetched a list and wrote it, the file holds
\* the list it returned; and a call of get_configured_indexers_from_file that
\* comes next, less than CACHE_DURATION later, and can read the file, hands
\* back that list without a call to the upstream.
C17_IndexersRestartsTTL ==
    \A r1, r2 \in Requests :
        (req[r1].kind = "indexers" /\ Refreshed(r1)) =>
            /\ lastEnded.r = r1 => file = Json(req[r1].result.ids)
            /\ (/\ CalledNextAfter(r2, r1)
                /\ ~req[r2].late
                /\ req[r2].read # "PermissionError")
               => /\ req[r2].calls = 0
                  /\ req[r2].result = req[r1].result

---------------------------------------------------------------------------
(* Claims about the fan-out, under ReadingSearchSpec *)

Backends == {"A", "B", "C"}

\* The search has a task for backend b, and the task has finished
Completed(q, b) ==
    /\ \E i \in 1..Len(q.tasks) : q.result.ids[i] = b
    /\ q.tasks[TaskOf(q, b)].done

\* Every event of the finished task of backend b has gone out on the stream
BatchEmitted(q, b) ==
    /\ Completed(q, b)
    /\ Len(EventsOf(q, b)) = Len(q.tasks[TaskOf(q, b)].res.batch)

\* C18: no head-of-line blocking.  With a client that keeps reading, the
\* whole batch of every backend whose task finishes is eventually on the
\* stream, whether or not the other backends ever answer.
C18_NoHeadOfLineBlocking ==
    \A b \in Backends : Completed(req[1], b) ~> BatchEmitted(req[1], b)

\* The first backend launched has not answered; the second has, with more
\* than one record, and all of them are on the stream
C18_Witness ==
    /\ req[1].pc = "streaming"
    /\ Len(req[1].tasks) >= 2
    /\ ~req[1].tasks[1].done
    /\ BatchEmitted(req[1], req[1].result.ids[2])
    /\ Len(EventsOf(req[1], req[1].result.ids[2])) > 1

\* The upstream list call of request r failed
RefreshFailed(q) == q.up \notin {"none", "ok"}

\* C19: a failed registry refresh changes no cache state.  The step in which
\* a refresh, of /search or of /indexers, gets a failed answer from the
\* upstream leaves the file and last_cache_update as they were; and when a
\* search found the cache stale and its refresh failed, the call that comes
\* next, no other request having written the file, calls the upstream again.
C19_FailedRefreshKeepsCache ==
    /\ [][\A r \in Requests :
             (~RefreshFailed(req[r]) /\ RefreshFailed(req'[r])) =>
                 /\ file' = file
                 /\ last_cache_update' = last_cache_update]_vars
    /\ [](\A r1, r2 \in Requests :
             (/\ req[r1].kind = "search"
              /\ req[r1].read \in {"none", "missing"}
              /\ RefreshFailed(req[r1])
              /\ \A x \in Requests \ {r2} : req[x].wrote = "none"
              /\ CalledNextAfter(r2, r1))
             => req[r2].calls = 1)

\* The TTL has run out on a file left by an earlier run; the refresh of the
\* first search fails, file and clock are as they were, and the second search
\* has called the upstream in its turn
C19_Witness ==
    /\ req[1].kind = "search" /\ req[1].read = "none"
    /\ req[1].up = "status" /\ req[1].pc = "failed"
    /\ file = Json(<<"C">>)
    /\ last_cache_update = 0
    /\ CalledNextAfter(2, 1)
    /\ req[2].calls = 1

---------------------------------------------------------------------------
(* Claims about the order of the stream, under SearchSpec *)

\* The batch the task of backend b returned, empty while it has not finished
BatchOf(q, b) ==
    IF Completed(q, b) THEN q.tasks[TaskOf(q, b)].res.batch ELSE <<>>

\* C20: batches are emitted whole, one after the other, each once.  On the
\* stream of a search the events of one backend are next to each other, with
\* no event of another backend between two of them; at every moment they are
\* the first so many elements of that backend's batch, in the batch's order,
\* so no element goes out twice; and when the stream has ended they are the
\* whole batch.
C20_BatchesAtomic ==
    \A r \in Searches :
        LET q == req[r]
            out == q.out
        IN  /\ \A i, k \in 1..Len(out) :
                   (i < k /\ BackendOf(out[i]) = BackendOf(out[k])) =>
                       \A j \in i..k : BackendOf(out[j]) = BackendOf(out[i])
            /\ \A b \in Backends :
                   /\ Len(EventsOf(q, b)) <= Len(BatchOf(q, b))
                   /\ EventsOf(q, b) = SubSeq(BatchOf(q, b), 1, Len(EventsOf(q, b)))
                   /\ q.pc = "closed" => EventsOf(q, b) = BatchOf(q, b)

\* Three backends answered with two records or more each, not in the order
\* of their launch; the stream has ended
C20_Witness ==
    /\ req[1].pc = "closed"
    /\ Len(req[1].tasks) = 3
    /\ req[1].order[1] # 1
    /\ \A b \in Backends : Len(EventsOf(req[1], b)) >= 2

=============================================================================
